---- MODULE Spec2Model ----
(***************************************************************************)
(* The UCN deployment map.  The public map: the pin cache, the Leaflet       *)
(* marker layer, the legend filter, the zip search and the realtime         *)
(* handlers of js/main.js, with the marker operations of map.js.  The admin *)
(* panel: the screens, the pin form and the pin operations of js/admin.js,  *)
(* with the requests of js/storage.js and the pins table they go to.        *)
(***************************************************************************)
EXTENDS Integers, Sequences, FiniteSets, TLC

VARIABLES
    pc,             \* position of init(): "boot", "loading" (awaiting getAllPins), "ready"
    pinsCache,      \* pinsCache of the page (main.js, admin.js): sequence of pin records
    activeFilters,  \* main.js activeFilters: set of status keys
    markersLayer,   \* map.js markersLayer: sequence of markers, in insertion order
    counts,         \* text of the [data-count] elements, per status
    lastUpdated,    \* whether #last-updated carries a timestamp
    last,           \* the handler that ran last: its kind, its argument, whether it called renderPins
    searches,       \* one record per call of handleSearch: its position and its locals
    searchResult,   \* the #search-result element: its text, its class, whether it is hidden
    requests,       \* number of geocoding requests issued so far
    view,           \* centre and zoom of the map
    searchCircle,   \* main.js searchCircle: the circle of the last search, or NoCircle
    overlays,       \* the circles that are on the map
    arrivals,       \* the calls of handleSearch, in the order their geocode answers arrived
    store,          \* the pins table, in list-all order (newest first)
    nextId,         \* the identifier the pins table assigns next
    feed,           \* realtime events sent to this page and not yet handled, oldest first
    delivered,      \* all realtime events sent to this page so far, oldest first
    base,           \* the pin cache as init() left it
    subscribed,     \* whether the realtime subscription of this page has started
    listResponse,   \* the answer to the list-all request of init(), while it travels
    session,        \* whether the browser holds a session the pins table accepts
    screen,         \* admin.js: which of #login-screen and #admin-panel are visible
    mapInitialized, \* admin.js mapInitialized
    mapInits,       \* number of calls of initAdminMap
    auth,           \* admin.js: positions of checkAuth, handleLogin, handleLogout; pending notices
    adminLoad,      \* admin.js: position of initAdminMap
    tasks,          \* admin.js: one record per call of a pin handler: position and locals
    form,           \* admin.js: the pin form, #pin-id, isEditing, tempMarker
    pinList,        \* admin.js: the identifiers listed in #pin-list
    popup           \* map.js: the popup content built last

mapVars == <<pc, pinsCache, activeFilters, markersLayer, counts, lastUpdated, last>>

searchVars == <<searches, searchResult, requests, view, searchCircle, overlays, arrivals>>

storeVars == <<store, nextId>>

syncVars == <<feed, delivered, base, subscribed, listResponse>>

pageVars ==
    <<session, screen, mapInitialized, mapInits, auth, adminLoad, tasks, form, pinList>>

pageVarsButTasks ==
    <<session, screen, mapInitialized, mapInits, auth, adminLoad, form, pinList>>

vars == <<mapVars, searchVars, storeVars, syncVars, pageVars, popup>>

-----------------------------------------------------------------------------
(* Bounds *)

\* identifiers the store hands out are 1..MaxId
MaxId == 2
\* the realtime feed stops inserting when the cache holds MaxCache records
MaxCache == 2
\* the search form is submitted at most MaxSearches times
MaxSearches == 2
\* the pin handlers of the admin panel are called at most MaxTasks times
MaxTasks == 2
\* the realtime feed sends a page at most MaxEvents events
MaxEvents == 3
\* at most MaxPending SIGNED_OUT notices, and as many calls of handleLogout,
\* are under way at a time
MaxPending == 1

-----------------------------------------------------------------------------
(* Data *)

\* the five status keys of PIN_STATUS
FilterCategories == {"critical", "warning", "active", "past", "weather"}

\* statuses carried by the pins of the store and of the feed (a subset of the
\* five keys, to keep the state space small; the legend still has all five)
EventStatuses == {"critical", "past"}

Ids == 1..MaxId

Pins == [id : Ids, status : EventStatuses]

\* the sequences over S of length at most n
SeqsUpTo(S, n) == UNION {[1..k -> S] : k \in 0..n}

CacheIds(cache) == {cache[i].id : i \in 1..Len(cache)}

\* what list-all can answer: pins with pairwise distinct identifiers
StoreLists ==
    {l \in SeqsUpTo(Pins, MaxCache) :
        \A i, j \in 1..Len(l) : l[i].id = l[j].id => i = j}

\* the outcomes of the list-all request: a list, or a failure (supabaseRequest
\* throws on a rejected fetch and on a response that is not ok)
ListResponses ==
    {[ok |-> TRUE, pins |-> l] : l \in StoreLists} \cup {[ok |-> FALSE, pins |-> <<>>]}

\* storage.js getAllPins: the list, or [] when the request throws
getAllPins(response) == IF response.ok THEN response.pins ELSE <<>>

-----------------------------------------------------------------------------
(* map.js *)

\* a new marker carries the pin record and has no pin-marker--dimmed class
\* (markersLayer is on the map, so every marker of it has its element and
\* getElement() is never empty in applyFilter and clearFilter)
createPinMarker(pin) == [pinData |-> pin, dimmed |-> FALSE]

\* clearLayers, then one new marker per pin, in order
renderPins(pins) == [i \in 1..Len(pins) |-> createPinMarker(pins[i])]

addPinToMap(layer, pin) == Append(layer, createPinMarker(pin))

\* a delete that clears the layer and renders the remaining pins again
removePinFromMap_rerender(layer, pinId) ==
    LET kept == SelectSeq(layer, LAMBDA m : m.pinData.id # pinId)
    IN  [i \in 1..Len(kept) |-> createPinMarker(kept[i].pinData)]

removePinFromMap(layer, pinId) ==
    SelectSeq(layer, LAMBDA m : m.pinData.id # pinId)

\* an applyFilter that adds the dimmed class and never removes it
applyFilter_addOnly(layer, activeStatuses) ==
    [i \in 1..Len(layer) |->
        [layer[i] EXCEPT !.dimmed =
            layer[i].dimmed \/ layer[i].pinData.status \notin activeStatuses]]

applyFilter(layer, activeStatuses) ==
    [i \in 1..Len(layer) |->
        [layer[i] EXCEPT !.dimmed = layer[i].pinData.status \notin activeStatuses]]

clearFilter(layer) ==
    [i \in 1..Len(layer) |-> [layer[i] EXCEPT !.dimmed = FALSE]]

-----------------------------------------------------------------------------
(* main.js: pure parts of the handlers *)

\* the Set literal of the declaration of activeFilters
InitialFilters == {"critical", "warning", "active", "past", "weather"}

\* a reset literal that misses a category
resetSet_short == {"critical", "warning", "active", "past"}

\* the Set literal resetFilters assigns
resetSet == {"critical", "warning", "active", "past", "weather"}

\* a counts object that misses the key past
updateCounts_noPast(cache) ==
    [s \in FilterCategories |->
        IF s = "past" THEN 0
        ELSE Cardinality({i \in 1..Len(cache) : cache[i].status = s})]

updateCounts(cache) ==
    [s \in FilterCategories |->
        Cardinality({i \in 1..Len(cache) : cache[i].status = s})]

\* a toggle that is a set-to operation
toggleSet_add(active, status) == active \cup {status}

toggleSet(active, status) ==
    IF status \in active THEN active \ {status} ELSE active \cup {status}

\* pinsCache.push(newPin)
insertCache(cache, newPin) == Append(cache, newPin)

\* an update that adds the record when the identifier is not cached
updateCache_upsert(cache, updatedPin) ==
    IF \E i \in 1..Len(cache) : cache[i].id = updatedPin.id
    THEN [i \in 1..Len(cache) |->
            IF cache[i].id = updatedPin.id THEN updatedPin ELSE cache[i]]
    ELSE Append(cache, updatedPin)

\* an update that finds the index and never assigns
updateCache_keep(cache, updatedPin) == cache

\* findIndex + assignment: the first record with the identifier is replaced
updateCache(cache, updatedPin) ==
    LET hits == {i \in 1..Len(cache) : cache[i].id = updatedPin.id}
    IN  IF hits = {} THEN cache
        ELSE LET index == CHOOSE i \in hits : \A j \in hits : i <= j
             IN  [cache EXCEPT ![index] = updatedPin]

\* a filter with the comparison inverted
deleteCache_inverted(cache, deletedPin) ==
    SelectSeq(cache, LAMBDA p : p.id = deletedPin.id)

\* pinsCache.filter(p => p.id !== deletedPin.id)
deleteCache(cache, deletedPin) ==
    SelectSeq(cache, LAMBDA p : p.id # deletedPin.id)

\* an insert that never reapplies the filter
insertMarkers_plain(layer, active, newPin) == addPinToMap(layer, newPin)

\* addPinToMap, then applyFilter when the new status is not active
insertMarkers(layer, active, newPin) ==
    LET added == addPinToMap(layer, newPin)
    IN  IF newPin.status \notin active THEN applyFilter(added, active) ELSE added

\* renderPins(pinsCache), then applyFilter(activeFilters)
updateMarkers(cache, active) == applyFilter(renderPins(cache), active)

-----------------------------------------------------------------------------
(* main.js: search *)

SEARCH_RADIUS_MILES == 50

\* zoom of CONFIG.MapZoom and of the setView call of handleSearch
MapZoom == 6
SearchZoom == 9

Slots == 1..MaxSearches

\* Text is a sequence of one-character strings.
Digits == {"0", "1", "2", "3", "4", "5", "6", "7", "8", "9"}

\* what the user can have typed into #search-input
Queries ==
    { <<>>,
      <<" ">>,
      <<"1", "2", "3", "4">>,
      <<"a", "b", "c", "d", "e">>,
      <<"7", "0", "1", "1", "2">>,
      <<" ", "7", "0", "1", "1", "2", " ">> }

\* String.prototype.trim, for the blank as the only white space
RECURSIVE trimStart(_)
trimStart(t) == IF t # <<>> /\ Head(t) = " " THEN trimStart(Tail(t)) ELSE t

RECURSIVE trimEnd(_)
trimEnd(t) ==
    IF t # <<>> /\ t[Len(t)] = " " THEN trimEnd(SubSeq(t, 1, Len(t) - 1)) ELSE t

trim(t) == trimEnd(trimStart(t))

\* a pattern that lets four digits through
isZip_fourToFive(query) ==
    Len(query) \in {4, 5} /\ \A i \in 1..Len(query) : query[i] \in Digits

\* /^\d{5}$/.test(query)
isZip(query) == Len(query) = 5 /\ \A i \in 1..5 : query[i] \in Digits

\* Latitudes are counted in miles of arc along one meridian (all points have
\* the same longitude), so that distances are whole numbers.
Coordinates == {0 - 1, 0}

\* pin.lat: the pins of the store lie 50, 51, 0, 10, ... miles up the meridian
pinLat(pin) ==
    IF pin.id = 1 THEN 50 ELSE IF pin.id = 2 THEN 51 ELSE (pin.id - 3) * 10

pinLng(pin) == 0

\* With dLng = 0 the formula gives a = sin^2(dLat/2), c = |dLat| and R*c is
\* the length of the arc between the two latitudes.
haversineDistance(lat1, lng1, lat2, lng2) ==
    IF lat2 >= lat1 THEN lat2 - lat1 ELSE lat1 - lat2

\* a radius test that leaves the boundary out
findPinsInRadius_strict(cache, lat, lng, radiusMiles) ==
    SelectSeq(cache, LAMBDA pin :
        haversineDistance(lat, lng, pinLat(pin), pinLng(pin)) < radiusMiles)

findPinsInRadius(cache, lat, lng, radiusMiles) ==
    SelectSeq(cache, LAMBDA pin :
        haversineDistance(lat, lng, pinLat(pin), pinLng(pin)) <= radiusMiles)

\* display_name of a match, as its comma-separated parts
DisplayNames == { <<"New Orleans", "Orleans Parish", "Louisiana", "United States">> }

\* what the geocoder can answer: fetch rejects; a response that is not ok; a
\* body that is not JSON; a list of at most one match (limit: 1)
GeoResponses ==
    {[kind |-> k, results |-> <<>>] : k \in {"reject", "notok", "badbody", "ok"}}
    \cup {[kind |-> "ok", results |-> <<[lat |-> c, lon |-> 0, display_name |-> d]>>] :
            c \in Coordinates, d \in DisplayNames}

NoCoords == [found |-> FALSE, lat |-> 0, lng |-> 0, display |-> <<>>]

\* a geocode that throws on a response that is not ok, as supabaseRequest does
geocode_throwsNotOk(response) ==
    IF response.kind \in {"reject", "notok", "badbody"}
    THEN [threw |-> TRUE, coords |-> NoCoords]
    ELSE IF Len(response.results) = 0 THEN [threw |-> FALSE, coords |-> NoCoords]
    ELSE LET result == response.results[1]
             parts == result.display_name
         IN  [threw |-> FALSE,
              coords |-> [found |-> TRUE, lat |-> result.lat, lng |-> result.lon,
                          display |-> SubSeq(parts, 1, IF Len(parts) < 2 THEN Len(parts) ELSE 2)]]

\* geocode(zipCode), given the answer to its request: whether it throws, and
\* the value it returns otherwise (NoCoords stands for null)
geocode(response) ==
    IF response.kind = "reject" THEN [threw |-> TRUE, coords |-> NoCoords]
    ELSE IF response.kind = "notok" THEN [threw |-> FALSE, coords |-> NoCoords]
    ELSE IF response.kind = "badbody" THEN [threw |-> TRUE, coords |-> NoCoords]
    ELSE IF Len(response.results) = 0 THEN [threw |-> FALSE, coords |-> NoCoords]
    ELSE LET result == response.results[1]
             parts == result.display_name
         IN  [threw |-> FALSE,
              coords |-> [found |-> TRUE, lat |-> result.lat, lng |-> result.lon,
                          display |-> SubSeq(parts, 1, IF Len(parts) < 2 THEN Len(parts) ELSE 2)]]

\* the #search-result element after showSearchResult(message, type)
Message(text, query, display, n, type) ==
    [text |-> text, query |-> query, display |-> display, n |-> n,
     type |-> type, hidden |-> FALSE]

NoMessage ==
    [text |-> "", query |-> <<>>, display |-> <<>>, n |-> 0,
     type |-> "neutral", hidden |-> TRUE]

EnterZip == Message("Please enter a zip code", <<>>, <<>>, 0, "error")
EnterValidZip == Message("Please enter a valid 5-digit zip code", <<>>, <<>>, 0, "error")
Searching == Message("Searching...", <<>>, <<>>, 0, "neutral")
NotFound(query) == Message("Zip code ${query} not found", query, <<>>, 0, "error")
SearchFailed == Message("Search failed. Please try again.", <<>>, <<>>, 0, "error")
Found(query, display, n) ==
    IF n = 0
    THEN Message("Found ${query} (${display}) - No pins within 50 miles",
                 query, display, 0, "neutral")
    ELSE Message("Found ${query} (${display}) - ${n} pin(s) within 50 miles",
                 query, display, n, "success")

NoView == [kind |-> "none", lat |-> 0, lng |-> 0, zoom |-> 0]

\* initMap: CONFIG.MapCenter, CONFIG.MapZoom
ConfigView == [kind |-> "config", lat |-> 0, lng |-> 0, zoom |-> MapZoom]

\* map.setView([lat, lng], 9)
setView(lat, lng) == [kind |-> "coord", lat |-> lat, lng |-> lng, zoom |-> SearchZoom]

NoCircle == [lat |-> 0, lng |-> 0, by |-> 0]

\* L.circle([lat, lng], ...) made by the call `by` of handleSearch
Circle(lat, lng, by) == [lat |-> lat, lng |-> lng, by |-> by]

\* what getMap() of main.js returns to a caller that does not await it: the
\* function is async, so the value is a promise, not the map
getMap == "promise"

\* what `await import('./map.js').then(m => m.getMap())` gives: the map
importedMap == "map"

\* a drawSearchCircle that draws on the map and leaves the previous circle on it
drawSearchCircle_keepsOld(map, circle, current, onMap) ==
    [threw |-> FALSE, searchCircle |-> circle, overlays |-> onMap \cup {circle}]

\* drawSearchCircle(lat, lng), with `map` the value of getMap(): whether it
\* throws, and searchCircle and the circles on the map after it.
\* map.removeLayer and circle.addTo(map), which calls map.addLayer, throw a
\* TypeError when map is not a Leaflet map.
drawSearchCircle(map, circle, current, onMap) ==
    IF current # NoCircle /\ map # "map"
    THEN [threw |-> TRUE, searchCircle |-> current, overlays |-> onMap]
    ELSE LET cleared == IF current # NoCircle THEN onMap \ {current} ELSE onMap
         IN  IF map # "map"
             THEN [threw |-> TRUE, searchCircle |-> current, overlays |-> cleared]
             ELSE [threw |-> FALSE, searchCircle |-> circle,
                   overlays |-> cleared \cup {circle}]

\* a search that assigns the filtered array to pinsCache
cacheAfterSearch_narrowed(cache, nearbyPins) == nearbyPins

\* pinsCache after findPinsInRadius: filter builds a new array and pinsCache
\* is not assigned
cacheAfterSearch(cache, nearbyPins) == cache

\* a call of handleSearch: where it stands ("idle": not yet called; "geocode":
\* awaiting geocode; "import": awaiting import('./map.js'); "done"), its
\* locals query, coords and nearbyPins, and how it ended; atSubmit records
\* the pin cache as it was when the form was submitted
IdleSearch ==
    [pc |-> "idle", query |-> <<>>, coords |-> NoCoords, nearby |-> <<>>,
     atSubmit |-> <<>>, end |-> "none"]

Ended(search, how) ==
    [search EXCEPT !.pc = "done", !.nearby = <<>>, !.atSubmit = <<>>, !.end = how]

-----------------------------------------------------------------------------
(* storage.js and the pins table *)

\* what a request to the pins table is answered with: the rows, or a failure
\* (a rejected fetch, a response that is not ok)
Reply(ok, pins) == [ok |-> ok, pins |-> pins]

Failure == Reply(FALSE, <<>>)

\* no list-all answer is travelling
NoResponse == [ok |-> FALSE, pins |-> <<>>, here |-> FALSE]

\* the tables the pins table can hold when a page opens: identifiers handed
\* out in order, newest row first
InitialStores ==
    {l \in StoreLists : \A i \in 1..Len(l) : l[i].id = Len(l) + 1 - i}

\* the rows a request `pins?id=eq.${id}' addresses
RowsOf(table, id) == SelectSeq(table, LAMBDA p : p.id = id)

\* POST pins: the policy "Authenticated insert" refuses a caller that is not
\* authenticated; otherwise the row gets the next identifier
insertRow(table, next, status, authenticated) ==
    LET row == [id |-> next, status |-> status]
    IN  IF authenticated
        THEN [store |-> <<row>> \o table, nextId |-> next + 1, reply |-> Reply(TRUE, <<row>>)]
        ELSE [store |-> table, nextId |-> next, reply |-> Failure]

\* PATCH pins?id=eq.: under the policy "Authenticated update" a caller that is
\* not authenticated addresses no row, and the answer is the empty list
updateRows(table, id, status, authenticated) ==
    LET after == [i \in 1..Len(table) |->
                    IF table[i].id = id THEN [table[i] EXCEPT !.status = status]
                    ELSE table[i]]
    IN  IF authenticated
        THEN [store |-> after, reply |-> Reply(TRUE, RowsOf(after, id))]
        ELSE [store |-> table, reply |-> Reply(TRUE, <<>>)]

\* DELETE pins?id=eq.: as for PATCH
deleteRows(table, id, authenticated) ==
    IF authenticated
    THEN [store |-> SelectSeq(table, LAMBDA p : p.id # id),
          reply |-> Reply(TRUE, RowsOf(table, id))]
    ELSE [store |-> table, reply |-> Reply(TRUE, <<>>)]

\* the value of `result[0] || null': a pin, or none
NoPin == [some |-> FALSE, pin |-> [id |-> 0, status |-> "none"]]

FirstOf(reply) ==
    IF reply.ok /\ reply.pins # <<>> THEN [some |-> TRUE, pin |-> reply.pins[1]] ELSE NoPin

\* storage.js savePin: the created record, or null when the request throws
savePin(reply) == FirstOf(reply)

\* storage.js updatePin: the updated record, or null
updatePin(reply) == FirstOf(reply)

\* storage.js deletePin: true unless the request throws
deletePin(reply) == reply.ok

\* storage.js getPinById: the record, or null
getPinById(reply) == FirstOf(reply)

-----------------------------------------------------------------------------
(* admin.js *)

TaskIds == 1..MaxTasks

\* one call of handlePinSubmit, handleEditPin or handleDeletePin: which one
\* (op: "create", "update", "edit", "delete"), where it is (pc: "idle";
\* "sent": its request is at the pins table; "replied": the answer travels;
\* "listSent", "listReplied": the same for its list-all refresh; "done"), the
\* identifier and status it works on, the answer it waits for, whether the
\* pins table took its request as that of an authenticated user, how it ended
IdleTask ==
    [op |-> "none", pc |-> "idle", id |-> 0, status |-> "none", reply |-> Failure,
     asUser |-> FALSE, end |-> "none"]

\* the pin form: whether #pin-form is hidden, the value of #pin-id (0: empty),
\* isEditing, whether tempMarker is on the map
ClosedForm == [hidden |-> TRUE, id |-> 0, isEditing |-> FALSE, tempMarker |-> FALSE]

\* resetForm, on the parts of the form modelled here
resetForm(f) == [f EXCEPT !.id = 0, !.isEditing = FALSE]

\* which of the two screens are visible
Screens == [login : BOOLEAN, admin : BOOLEAN]

\* the public map has neither screen
NoScreens == [login |-> FALSE, admin |-> FALSE]

LoginShown == [login |-> TRUE, admin |-> FALSE]

AdminShown == [login |-> FALSE, admin |-> TRUE]

\* initAdminMap: where it is ("none"; "sent": its list-all request is at the
\* pins table; "replied": the answer travels; "loaded") and the answer
NoLoad == [pc |-> "none", reply |-> Failure, again |-> FALSE]

\* checkAuth and handleLogin: where each is ("idle", "pending", and for
\* checkAuth "done"); the calls of handleLogout that await signOut; the
\* SIGNED_OUT notices not yet delivered; whether #login-error is visible
NoAuth ==
    [check |-> "idle", login |-> "idle", logout |-> 0, notices |-> 0, loginError |-> FALSE]

\* renderPinList: one entry per pin, in the order of the list
renderPinList(pins) == [i \in 1..Len(pins) |-> pins[i].id]

\* the values a flag column of a row can hold, as JSON
FlagValues == {"true", "false", "null"}

\* the custom link of a pin: none, or a URL
Urls == {"", "https://example.org/relief"}

\* the parts of a pin that decide the buttons of its popup
PopupPins ==
    [show_donate : FlagValues, show_volunteer : FlagValues, show_help : FlagValues,
     url : Urls, url_text : {"", "Details"}]

\* the buttons in the order they are appended
Buttons(showDonate, showVolunteer, showHelp, showUrl, urlText) ==
    (IF showDonate THEN <<"Donate">> ELSE <<>>)
    \o (IF showVolunteer THEN <<"Volunteer">> ELSE <<>>)
    \o (IF showHelp THEN <<"Get Help">> ELSE <<>>)
    \o (IF showUrl THEN <<IF urlText # "" THEN urlText ELSE "More Info">> ELSE <<>>)

\* a popup whose custom link does not wait for a flag
createPopupContent_urlAlways(pin) ==
    LET showDonate == pin.show_donate = "true"
        showVolunteer == pin.show_volunteer = "true"
        showHelp == pin.show_help = "true"
    IN  [actions |-> showDonate \/ showVolunteer \/ showHelp \/ pin.url # "",
         buttons |-> Buttons(showDonate, showVolunteer, showHelp, pin.url # "", pin.url_text)]

\* map.js createPopupContent, on the action buttons: whether the popup has
\* the section .pin-popup__actions, and the texts of the buttons in it
createPopupContent(pin) ==
    LET showDonate == pin.show_donate = "true"
        showVolunteer == pin.show_volunteer = "true"
        showHelp == pin.show_help = "true"
    IN  IF showDonate \/ showVolunteer \/ showHelp
        THEN [actions |-> TRUE,
              buttons |-> Buttons(showDonate, showVolunteer, showHelp, pin.url # "",
                                  pin.url_text)]
        ELSE [actions |-> FALSE, buttons |-> <<>>]

\* the popup content built last, and the pin it was built for
NoPopup ==
    [built |-> FALSE,
     pin |-> [show_donate |-> "false", show_volunteer |-> "false", show_help |-> "false",
              url |-> "", url_text |-> ""],
     actions |-> FALSE, buttons |-> <<>>]


-----------------------------------------------------------------------------
(* State machine *)

ZeroCounts == [s \in FilterCategories |-> 0]

\* `last' describes the handler that ran last:
\*   op       its kind
\*   id, cat  the identifier of its event, the category of its toggle
\*   rendered whether it called renderPins
\*   changed  whether it changed the cache (events) or the filter set (filters);
\*            init: whether the list-all request succeeded
\*   fresh    insert: the identifier was not cached before it;
\*            delete: it directly follows such an insert of the same identifier
\*   chained  delete: it directly follows an insert of the same identifier
\*   base     insert, chained delete: the displayed counts before the insert
NoLast ==
    [op |-> "none", id |-> 0, cat |-> "none", rendered |-> FALSE,
     changed |-> FALSE, fresh |-> FALSE, chained |-> FALSE, base |-> ZeroCounts]

Boot ==
    /\ pc = "boot"
    /\ pinsCache = <<>>
    /\ activeFilters = InitialFilters
    /\ markersLayer = <<>>
    /\ counts = ZeroCounts
    /\ lastUpdated = FALSE
    /\ last = NoLast
    /\ searches = [s \in Slots |-> IdleSearch]
    /\ searchResult = NoMessage
    /\ requests = 0
    /\ view = NoView
    /\ searchCircle = NoCircle
    /\ overlays = {}
    /\ arrivals = <<>>
    /\ feed = <<>>
    /\ delivered = <<>>
    /\ base = <<>>
    /\ subscribed = FALSE
    /\ listResponse = NoResponse
    /\ mapInitialized = FALSE
    /\ mapInits = 0
    /\ auth = NoAuth
    /\ adminLoad = NoLoad
    /\ tasks = [t \in TaskIds |-> IdleTask]
    /\ form = ClosedForm
    /\ pinList = <<>>

\* the public map with a feed and a list-all answer that are not tied to a pins
\* table: any list, any event
Init ==
    /\ Boot
    /\ store = <<>>
    /\ nextId = 1
    /\ session = FALSE
    /\ screen = NoScreens
    /\ popup = NoPopup

\* init() up to its await: initMap, then the list-all request is issued
initStart ==
    /\ pc = "boot"
    /\ pc' = "loading"
    /\ markersLayer' = <<>>
    /\ view' = ConfigView
    /\ UNCHANGED <<pinsCache, activeFilters, counts, lastUpdated, last>>
    /\ UNCHANGED <<searches, searchResult, requests, searchCircle, overlays, arrivals>>
    /\ UNCHANGED <<storeVars, syncVars, pageVars, popup>>

\* init() after the await: cache, markers, counts, timestamp, listeners, subscription
initLoadedOf(response) ==
    /\ pinsCache' = getAllPins(response)
    /\ markersLayer' = renderPins(pinsCache')
    /\ counts' = updateCounts(pinsCache')
    /\ last' = [NoLast EXCEPT !.op = "init", !.rendered = TRUE,
                              !.changed = response.ok]
    /\ lastUpdated' = TRUE
    /\ pc' = "ready"
    /\ UNCHANGED activeFilters
    /\ UNCHANGED <<searchVars, pageVars, popup>>

initLoaded ==
    /\ pc = "loading"
    /\ \E response \in ListResponses : initLoadedOf(response)
    /\ UNCHANGED <<storeVars, syncVars>>

\* the insert callback, for the event record newPin
onInsertOf(newPin) ==
    /\ pinsCache' = insertCache(pinsCache, newPin)
    /\ markersLayer' = insertMarkers(markersLayer, activeFilters, newPin)
    /\ counts' = updateCounts(pinsCache')
    /\ lastUpdated' = TRUE
    /\ last' = [NoLast EXCEPT !.op = "insert", !.id = newPin.id, !.changed = TRUE,
                              !.fresh = newPin.id \notin CacheIds(pinsCache),
                              !.base = counts]
    /\ UNCHANGED <<pc, activeFilters>>
    /\ UNCHANGED <<searchVars, pageVars, popup>>

onInsert ==
    /\ pc = "ready"
    /\ Len(pinsCache) < MaxCache
    /\ \E newPin \in Pins : onInsertOf(newPin)
    /\ UNCHANGED <<storeVars, syncVars>>

\* the update callback, for the event record updatedPin
onUpdateOf(updatedPin) ==
    /\ pinsCache' = updateCache(pinsCache, updatedPin)
    /\ markersLayer' = updateMarkers(pinsCache', activeFilters)
    /\ counts' = updateCounts(pinsCache')
    /\ lastUpdated' = TRUE
    /\ last' = [NoLast EXCEPT !.op = "update", !.id = updatedPin.id, !.rendered = TRUE,
                              !.changed = pinsCache' # pinsCache]
    /\ UNCHANGED <<pc, activeFilters>>
    /\ UNCHANGED <<searchVars, pageVars, popup>>

onUpdate ==
    /\ pc = "ready"
    /\ \E updatedPin \in Pins : onUpdateOf(updatedPin)
    /\ UNCHANGED <<storeVars, syncVars>>

\* the delete callback, for the event record deletedPin
onDeleteOf(deletedPin) ==
    /\ pinsCache' = deleteCache(pinsCache, deletedPin)
    /\ markersLayer' = removePinFromMap(markersLayer, deletedPin.id)
    /\ counts' = updateCounts(pinsCache')
    /\ lastUpdated' = TRUE
    /\ LET follows == last.op = "insert" /\ last.id = deletedPin.id
       IN  last' = [NoLast EXCEPT !.op = "delete", !.id = deletedPin.id,
                                  !.changed = pinsCache' # pinsCache,
                                  !.chained = follows,
                                  !.fresh = follows /\ last.fresh,
                                  !.base = IF follows THEN last.base ELSE ZeroCounts]
    /\ UNCHANGED <<pc, activeFilters>>
    /\ UNCHANGED <<searchVars, pageVars, popup>>

onDelete ==
    /\ pc = "ready"
    /\ \E deletedPin \in Pins : onDeleteOf(deletedPin)
    /\ UNCHANGED <<storeVars, syncVars>>

\* a toggle that recounts over the pins left undimmed
toggleFilter_recount ==
    /\ pc = "ready"
    /\ \E status \in FilterCategories :
        /\ activeFilters' = toggleSet(activeFilters, status)
        /\ last' = [NoLast EXCEPT !.op = "toggle", !.cat = status, !.changed = TRUE]
    /\ markersLayer' = applyFilter(markersLayer, activeFilters')
    /\ counts' = updateCounts(SelectSeq(pinsCache, LAMBDA p : p.status \in activeFilters'))
    /\ UNCHANGED <<pc, pinsCache, lastUpdated>>
    /\ UNCHANGED <<searchVars, storeVars, syncVars, pageVars, popup>>

toggleFilter ==
    /\ pc = "ready"
    /\ \E status \in FilterCategories :
        /\ activeFilters' = toggleSet(activeFilters, status)
        /\ last' = [NoLast EXCEPT !.op = "toggle", !.cat = status, !.changed = TRUE]
    /\ markersLayer' = applyFilter(markersLayer, activeFilters')
    /\ UNCHANGED <<pc, pinsCache, counts, lastUpdated>>
    /\ UNCHANGED <<searchVars, storeVars, syncVars, pageVars, popup>>

resetFilters ==
    /\ pc = "ready"
    /\ activeFilters' = resetSet
    /\ markersLayer' = clearFilter(markersLayer)
    /\ last' = [NoLast EXCEPT !.op = "reset", !.changed = activeFilters # resetSet]
    /\ UNCHANGED <<pc, pinsCache, counts, lastUpdated>>
    /\ UNCHANGED <<searchVars, storeVars, syncVars, pageVars, popup>>

Next ==
    \/ initStart
    \/ initLoaded
    \/ onInsert
    \/ onUpdate
    \/ onDelete
    \/ toggleFilter
    \/ resetFilters

Spec == Init /\ [][Next]_vars

\* handleSearch up to its first await, for the text raw of #search-input
handleSearchOf(s, raw) ==
    LET query == trim(raw)
    IN  /\ IF query = <<>>
           THEN /\ searchResult' = EnterZip
                /\ searches' = [searches EXCEPT ![s] = Ended([@ EXCEPT !.query = query], "invalid")]
                /\ requests' = requests
           ELSE IF ~isZip(query)
           THEN /\ searchResult' = EnterValidZip
                /\ searches' = [searches EXCEPT ![s] = Ended([@ EXCEPT !.query = query], "invalid")]
                /\ requests' = requests
           ELSE /\ searchResult' = Searching
                /\ searches' = [searches EXCEPT ![s] =
                        [@ EXCEPT !.pc = "geocode", !.query = query, !.atSubmit = pinsCache]]
                /\ requests' = requests + 1
        /\ UNCHANGED <<view, searchCircle, overlays, arrivals>>
        /\ UNCHANGED mapVars
        /\ UNCHANGED <<storeVars, syncVars, pageVars, popup>>

\* the form is submitted: the next call of handleSearch starts
handleSearch ==
    /\ pc = "ready"
    /\ \E s \in Slots :
        /\ searches[s].pc = "idle"
        /\ \A t \in Slots : t < s => searches[t].pc # "idle"
        /\ \E raw \in Queries : handleSearchOf(s, raw)

\* a search that sends its lookup again when it failed
geocodeReturnsOf_retries(s, response) ==
    LET g == geocode(response)
        query == searches[s].query
        nearbyPins == findPinsInRadius(pinsCache, g.coords.lat, g.coords.lng,
                                       SEARCH_RADIUS_MILES)
    IN  /\ arrivals' = Append(arrivals, s)
        /\ IF g.threw
           THEN /\ searchResult' = Searching
                /\ searches' = searches
                /\ requests' = requests + 1
           ELSE IF ~g.coords.found
           THEN /\ searchResult' = NotFound(query)
                /\ searches' = [searches EXCEPT ![s] = Ended(@, "notfound")]
                /\ requests' = requests
           ELSE /\ searchResult' = searchResult
                /\ searches' = [searches EXCEPT ![s] =
                        [@ EXCEPT !.pc = "import", !.coords = g.coords, !.nearby = nearbyPins]]
                /\ requests' = requests
        /\ UNCHANGED <<view, searchCircle, overlays>>
        /\ UNCHANGED mapVars
        /\ UNCHANGED <<storeVars, syncVars, pageVars, popup>>

\* handleSearch from the answer of the geocoder to its return or its next await
geocodeReturnsOf(s, response) ==
    LET g == geocode(response)
        query == searches[s].query
        nearbyPins == findPinsInRadius(pinsCache, g.coords.lat, g.coords.lng,
                                       SEARCH_RADIUS_MILES)
    IN  /\ arrivals' = Append(arrivals, s)
        /\ IF g.threw
           THEN /\ searchResult' = SearchFailed
                /\ searches' = [searches EXCEPT ![s] = Ended(@, "failed")]
                /\ pinsCache' = pinsCache
           ELSE IF ~g.coords.found
           THEN /\ searchResult' = NotFound(query)
                /\ searches' = [searches EXCEPT ![s] = Ended(@, "notfound")]
                /\ pinsCache' = pinsCache
           ELSE /\ searchResult' = searchResult
                /\ searches' = [searches EXCEPT ![s] =
                        [@ EXCEPT !.pc = "import", !.coords = g.coords, !.nearby = nearbyPins]]
                /\ pinsCache' = cacheAfterSearch(pinsCache, nearbyPins)
        /\ UNCHANGED <<requests, view, searchCircle, overlays>>
        /\ UNCHANGED <<pc, activeFilters, markersLayer, counts, lastUpdated, last>>
        /\ UNCHANGED <<storeVars, syncVars, pageVars, popup>>

geocodeReturns ==
    \E s \in Slots :
        /\ searches[s].pc = "geocode"
        /\ \E response \in GeoResponses : geocodeReturnsOf(s, response)

\* handleSearch after `await import('./map.js')`: setView, drawSearchCircle,
\* the result message, or the catch block
importResolvedOf(s) ==
    LET coords == searches[s].coords
        nearbyPins == searches[s].nearby
        map == importedMap
        drawn == drawSearchCircle(getMap, Circle(coords.lat, coords.lng, s),
                                  searchCircle, overlays)
    IN  /\ view' = IF map = "map" THEN setView(coords.lat, coords.lng) ELSE view
        /\ searchCircle' = drawn.searchCircle
        /\ overlays' = drawn.overlays
        /\ IF map # "map" \/ drawn.threw
           THEN /\ searchResult' = SearchFailed
                /\ searches' = [searches EXCEPT ![s] = Ended(@, "failed")]
           ELSE /\ searchResult' = Found(searches[s].query, coords.display, Len(nearbyPins))
                /\ searches' = [searches EXCEPT ![s] = Ended(@, "found")]
        /\ UNCHANGED <<requests, arrivals>>
        /\ UNCHANGED mapVars
        /\ UNCHANGED <<storeVars, syncVars, pageVars, popup>>

importResolved ==
    \E s \in Slots :
        /\ searches[s].pc = "import"
        /\ importResolvedOf(s)

NextSearch ==
    \/ initStart
    \/ initLoaded
    \/ handleSearch
    \/ geocodeReturns
    \/ importResolved

SpecSearch == Init /\ [][NextSearch]_vars

\* the events that arrive while searches are under way are those of the pins
\* of one category (the radius test does not read the category)
LivePins == {p \in Pins : p.status = "critical"}

\* the insert callback, between the steps of the searches
liveInsert ==
    /\ pc = "ready"
    /\ Len(pinsCache) < MaxCache
    /\ \E newPin \in LivePins : onInsertOf(newPin)
    /\ UNCHANGED <<storeVars, syncVars>>

\* the delete callback, between the steps of the searches
liveDelete ==
    /\ pc = "ready"
    /\ \E deletedPin \in LivePins : onDeleteOf(deletedPin)
    /\ UNCHANGED <<storeVars, syncVars>>

\* the public map with its search form and the realtime callbacks
NextLive ==
    \/ initStart
    \/ initLoaded
    \/ liveInsert
    \/ liveDelete
    \/ handleSearch
    \/ geocodeReturns
    \/ importResolved

SpecLive == Init /\ [][NextLive]_vars


-----------------------------------------------------------------------------
(* State machine of the admin panel *)

\* the admin panel opens on a pins table with some rows, with or without a
\* session kept from an earlier visit; admin.html is not among the sources,
\* so the classes its two screens start with are left open
InitAdmin ==
    /\ Boot
    /\ store \in InitialStores
    /\ nextId = Len(store) + 1
    /\ session \in BOOLEAN
    /\ screen \in Screens
    /\ popup = NoPopup

\* what the admin panel does not touch: the state of the public map
publicVars == <<pc, activeFilters, counts, lastUpdated, last, searchVars, syncVars, popup>>

\* a login screen shown on top of whatever the panel is
showLoginScreen_keepsPanel == screen' = [login |-> TRUE, admin |-> screen.admin]

\* showLoginScreen
showLoginScreen == screen' = LoginShown

\* a panel that sets up its map every time it is shown
showAdminPanel_always ==
    /\ screen' = AdminShown
    /\ mapInits' = mapInits + 1
    /\ mapInitialized' = TRUE
    /\ adminLoad' = [pc |-> "sent", reply |-> Failure, again |-> mapInitialized]
    /\ markersLayer' = <<>>

\* showAdminPanel, with initAdminMap up to its await: initMap, then the
\* list-all request is issued; adminLoad.again records that the panel was
\* shown with its map already set up
showAdminPanel ==
    /\ screen' = AdminShown
    /\ IF ~mapInitialized
       THEN /\ mapInits' = mapInits + 1
            /\ mapInitialized' = TRUE
            /\ adminLoad' = [pc |-> "sent", reply |-> Failure, again |-> FALSE]
            /\ markersLayer' = <<>>
       ELSE /\ adminLoad' = [adminLoad EXCEPT !.again = TRUE]
            /\ UNCHANGED <<mapInits, mapInitialized, markersLayer>>

\* checkAuth up to its await
checkAuth ==
    /\ auth.check = "idle"
    /\ auth' = [auth EXCEPT !.check = "pending"]
    /\ UNCHANGED <<session, screen, mapInitialized, mapInits, adminLoad, tasks, form, pinList>>
    /\ UNCHANGED <<pinsCache, markersLayer, storeVars, publicVars>>

\* checkAuth after getSession: the panel when there is a user, the login
\* screen otherwise
sessionReturns ==
    /\ auth.check = "pending"
    /\ auth' = [auth EXCEPT !.check = "done"]
    /\ IF session
       THEN showAdminPanel
       ELSE /\ showLoginScreen
            /\ UNCHANGED <<mapInits, mapInitialized, adminLoad, markersLayer>>
    /\ UNCHANGED <<session, tasks, form, pinList>>
    /\ UNCHANGED <<pinsCache, storeVars, publicVars>>

\* the pins table answers the list-all request of initAdminMap
adminMapServed ==
    /\ adminLoad.pc = "sent"
    /\ \E reply \in {Reply(TRUE, store), Failure} :
        adminLoad' = [adminLoad EXCEPT !.pc = "replied", !.reply = reply]
    /\ UNCHANGED <<session, screen, mapInitialized, mapInits, auth, tasks, form, pinList>>
    /\ UNCHANGED <<pinsCache, markersLayer, storeVars, publicVars>>

\* initAdminMap after its await: cache, markers, pin list, click handler
adminMapLoaded ==
    /\ adminLoad.pc = "replied"
    /\ pinsCache' = getAllPins(adminLoad.reply)
    /\ markersLayer' = renderPins(pinsCache')
    /\ pinList' = renderPinList(pinsCache')
    /\ adminLoad' = [adminLoad EXCEPT !.pc = "loaded", !.reply = Failure]
    /\ UNCHANGED <<session, screen, mapInitialized, mapInits, auth, tasks, form>>
    /\ UNCHANGED <<storeVars, publicVars>>

\* the session ends without the user's doing (the token expires, the user is
\* removed); the client is notified
sessionExpires ==
    /\ session
    /\ auth.notices < MaxPending
    /\ session' = FALSE
    /\ auth' = [auth EXCEPT !.notices = @ + 1]
    /\ UNCHANGED <<screen, mapInitialized, mapInits, adminLoad, tasks, form, pinList>>
    /\ UNCHANGED <<pinsCache, markersLayer, storeVars, publicVars>>

\* handleLogin up to its await, for a login form that is filled in or not;
\* the button is disabled while signIn is awaited
handleLogin ==
    /\ auth.login = "idle"
    /\ \E filled \in BOOLEAN :
        auth' = IF filled THEN [auth EXCEPT !.login = "pending"]
                ELSE [auth EXCEPT !.loginError = TRUE]
    /\ UNCHANGED <<session, screen, mapInitialized, mapInits, adminLoad, tasks, form, pinList>>
    /\ UNCHANGED <<pinsCache, markersLayer, storeVars, publicVars>>

\* handleLogin after signIn: the error, or the panel
signInReturns ==
    /\ auth.login = "pending"
    /\ \E ok \in BOOLEAN :
        IF ok
        THEN /\ auth' = [auth EXCEPT !.login = "idle", !.loginError = FALSE]
             /\ session' = TRUE
             /\ showAdminPanel
        ELSE /\ auth' = [auth EXCEPT !.login = "idle", !.loginError = TRUE]
             /\ UNCHANGED <<session, screen, mapInits, mapInitialized, adminLoad, markersLayer>>
    /\ UNCHANGED <<tasks, form, pinList>>
    /\ UNCHANGED <<pinsCache, storeVars, publicVars>>

\* handleLogout up to its await
handleLogout ==
    /\ auth.logout < MaxPending
    /\ auth' = [auth EXCEPT !.logout = @ + 1]
    /\ UNCHANGED <<session, screen, mapInitialized, mapInits, adminLoad, tasks, form, pinList>>
    /\ UNCHANGED <<pinsCache, markersLayer, storeVars, publicVars>>

\* handleLogout after signOut, which ended the session (the client is
\* notified) or threw: the login screen in both cases
signOutReturns ==
    /\ auth.logout > 0
    /\ \E ok \in BOOLEAN :
        IF ok
        THEN /\ auth.notices < MaxPending
             /\ auth' = [auth EXCEPT !.logout = @ - 1, !.notices = @ + 1]
             /\ session' = FALSE
        ELSE /\ auth' = [auth EXCEPT !.logout = @ - 1]
             /\ session' = session
    /\ showLoginScreen
    /\ UNCHANGED <<mapInitialized, mapInits, adminLoad, tasks, form, pinList>>
    /\ UNCHANGED <<pinsCache, markersLayer, storeVars, publicVars>>

\* the callback of onAuthStateChange, for a SIGNED_OUT notice
onAuthStateChange ==
    /\ auth.notices > 0
    /\ auth' = [auth EXCEPT !.notices = @ - 1]
    /\ showLoginScreen
    /\ UNCHANGED <<session, mapInitialized, mapInits, adminLoad, tasks, form, pinList>>
    /\ UNCHANGED <<pinsCache, markersLayer, storeVars, publicVars>>

\* the screens of the admin panel, without the pin handlers
NextAuth ==
    \/ checkAuth
    \/ sessionReturns
    \/ adminMapServed
    \/ adminMapLoaded
    \/ sessionExpires
    \/ handleLogin
    \/ signInReturns
    \/ handleLogout
    \/ signOutReturns
    \/ onAuthStateChange

SpecAuth == InitAdmin /\ [][NextAuth]_vars

\* the next call of a pin handler uses the first record not yet used
NextTask(t) == tasks[t].pc = "idle" /\ \A u \in TaskIds : u < t => tasks[u].pc # "idle"

Finished(task, how) == [task EXCEPT !.pc = "done", !.reply = Failure, !.end = how]

\* a click on the map: a temporary marker, an empty form for a new pin
handleMapClick ==
    /\ adminLoad.pc = "loaded"
    /\ form' = [hidden |-> FALSE, id |-> 0, isEditing |-> FALSE, tempMarker |-> TRUE]
    /\ UNCHANGED <<session, screen, mapInitialized, mapInits, auth, adminLoad, tasks, pinList>>
    /\ UNCHANGED <<pinsCache, markersLayer, storeVars, publicVars>>

\* the cancel button of the form
handleCancel ==
    /\ ~form.hidden
    /\ form' = [resetForm(form) EXCEPT !.hidden = TRUE, !.tempMarker = FALSE]
    /\ UNCHANGED <<session, screen, mapInitialized, mapInits, auth, adminLoad, tasks, pinList>>
    /\ UNCHANGED <<pinsCache, markersLayer, storeVars, publicVars>>

\* handlePinSubmit up to its await, for a form with or without a title and
\* with the status chosen in it: the update request when isEditing, the
\* create request otherwise
handlePinSubmitOf(t, titled, status) ==
    /\ IF ~titled
       THEN /\ tasks' = [tasks EXCEPT ![t] = Finished([@ EXCEPT !.op = "submit"], "alertTitle")]
            /\ form' = form
       ELSE /\ form' = [form EXCEPT !.tempMarker = FALSE]
            /\ tasks' = [tasks EXCEPT ![t] =
                    [@ EXCEPT !.op = IF form.isEditing THEN "update" ELSE "create",
                              !.pc = "sent",
                              !.id = IF form.isEditing THEN form.id ELSE 0,
                              !.status = status]]
    /\ UNCHANGED <<session, screen, mapInitialized, mapInits, auth, adminLoad, pinList>>
    /\ UNCHANGED <<pinsCache, markersLayer, storeVars, publicVars>>

\* the form is submitted; it can be while it is visible
handlePinSubmit ==
    /\ ~form.hidden
    /\ \E t \in TaskIds :
        /\ NextTask(t)
        /\ \E titled \in BOOLEAN, status \in EventStatuses : handlePinSubmitOf(t, titled, status)

\* handleEditPin up to its await: the request for the pin
handleEditPinOf(t, id) ==
    /\ tasks' = [tasks EXCEPT ![t] = [@ EXCEPT !.op = "edit", !.pc = "sent", !.id = id]]
    /\ UNCHANGED <<session, screen, mapInitialized, mapInits, auth, adminLoad, form, pinList>>
    /\ UNCHANGED <<pinsCache, markersLayer, storeVars, publicVars>>

\* the edit button of an entry of the pin list
handleEditPin ==
    \E t \in TaskIds :
        /\ NextTask(t)
        /\ \E i \in 1..Len(pinList) : handleEditPinOf(t, pinList[i])

\* handleDeletePin up to its await, once the user has confirmed: the delete
\* request
handleDeletePinOf(t, id) ==
    /\ tasks' = [tasks EXCEPT ![t] = [@ EXCEPT !.op = "delete", !.pc = "sent", !.id = id]]
    /\ UNCHANGED <<session, screen, mapInitialized, mapInits, auth, adminLoad, form, pinList>>
    /\ UNCHANGED <<pinsCache, markersLayer, storeVars, publicVars>>

\* the delete button of an entry of the pin list
handleDeletePin ==
    \E t \in TaskIds :
        /\ NextTask(t)
        /\ \E i \in 1..Len(pinList) : handleDeletePinOf(t, pinList[i])

\* the pins table takes the request of a handler and answers it; a request
\* can also fail on its way (a rejected fetch, an answer that is not ok, such
\* as the one to a token that has expired), and then changes nothing
tableServesOf(t, fails) ==
    LET task == tasks[t]
        created == insertRow(store, nextId, task.status, session)
        updated == updateRows(store, task.id, task.status, session)
        deleted == deleteRows(store, task.id, session)
        first == task.pc = "sent"
        reply == IF fails THEN Failure
                 ELSE IF ~first THEN Reply(TRUE, store)
                 ELSE IF task.op = "create" THEN created.reply
                 ELSE IF task.op = "update" THEN updated.reply
                 ELSE IF task.op = "delete" THEN deleted.reply
                 ELSE Reply(TRUE, RowsOf(store, task.id))
    IN  /\ tasks' = [tasks EXCEPT ![t] =
                [@ EXCEPT !.pc = IF first THEN "replied" ELSE "listReplied", !.reply = reply,
                          !.asUser = IF first THEN session ELSE @]]
        /\ store' = IF fails \/ ~first THEN store
                    ELSE IF task.op = "create" THEN created.store
                    ELSE IF task.op = "update" THEN updated.store
                    ELSE IF task.op = "delete" THEN deleted.store
                    ELSE store
        /\ nextId' = IF ~fails /\ first /\ task.op = "create" THEN created.nextId ELSE nextId
        /\ UNCHANGED pageVarsButTasks
        /\ UNCHANGED <<pinsCache, markersLayer, publicVars>>

tableServes ==
    \E t \in TaskIds :
        /\ tasks[t].pc \in {"sent", "listSent"}
        /\ \E fails \in BOOLEAN :
            /\ (tasks[t].pc = "sent" /\ tasks[t].op = "create" /\ nextId > MaxId) => fails
            /\ tableServesOf(t, fails)

\* handlePinSubmit after an await.  After savePin or updatePin: the marker of
\* the new pin and the list-all refresh, or the alert.  After the refresh:
\* the cache, for an update the markers, the pin list.  Then the form is
\* reset and hidden.
handlePinSubmitResumesOf(t) ==
    LET task == tasks[t]
        result == IF task.op = "create" THEN savePin(task.reply) ELSE updatePin(task.reply)
        closed == [resetForm(form) EXCEPT !.hidden = TRUE]
    IN  /\ IF task.pc = "replied"
           THEN /\ UNCHANGED <<pinsCache, pinList>>
                /\ IF result.some
                   THEN /\ tasks' = [tasks EXCEPT ![t] = [@ EXCEPT !.pc = "listSent",
                                                                 !.reply = Failure,
                                                                 !.id = result.pin.id]]
                        /\ markersLayer' = IF task.op = "create"
                                           THEN addPinToMap(markersLayer, result.pin)
                                           ELSE markersLayer
                        /\ form' = form
                   ELSE /\ tasks' = [tasks EXCEPT ![t] = Finished(@, "alert")]
                        /\ markersLayer' = markersLayer
                        /\ form' = closed
           ELSE /\ pinsCache' = getAllPins(task.reply)
                /\ markersLayer' = IF task.op = "update" THEN renderPins(pinsCache')
                                   ELSE markersLayer
                /\ pinList' = renderPinList(pinsCache')
                /\ tasks' = [tasks EXCEPT ![t] = Finished(@, "ok")]
                /\ form' = closed
        /\ UNCHANGED <<session, screen, mapInitialized, mapInits, auth, adminLoad>>
        /\ UNCHANGED <<storeVars, publicVars>>

handlePinSubmitResumes ==
    \E t \in TaskIds :
        /\ tasks[t].op \in {"create", "update"}
        /\ tasks[t].pc \in {"replied", "listReplied"}
        /\ handlePinSubmitResumesOf(t)

\* handleEditPin after getPinById: nothing when there is no such pin,
\* otherwise the form is filled with the pin and shown in editing mode
handleEditPinResumesOf(t) ==
    LET pin == getPinById(tasks[t].reply)
    IN  /\ IF ~pin.some
           THEN /\ tasks' = [tasks EXCEPT ![t] = Finished(@, "silent")]
                /\ form' = form
           ELSE /\ tasks' = [tasks EXCEPT ![t] = Finished(@, "ok")]
                /\ form' = [hidden |-> FALSE, id |-> pin.pin.id, isEditing |-> TRUE,
                            tempMarker |-> FALSE]
        /\ UNCHANGED <<session, screen, mapInitialized, mapInits, auth, adminLoad, pinList>>
        /\ UNCHANGED <<pinsCache, markersLayer, storeVars, publicVars>>

handleEditPinResumes ==
    \E t \in TaskIds :
        /\ tasks[t].op = "edit"
        /\ tasks[t].pc = "replied"
        /\ handleEditPinResumesOf(t)

\* handleDeletePin after an await.  After deletePin: the marker is removed
\* and the list-all refresh issued, or the alert.  After the refresh: the
\* cache, the pin list, and the form is hidden if it shows this pin.
handleDeletePinResumesOf(t) ==
    LET task == tasks[t]
        success == deletePin(task.reply)
    IN  /\ IF task.pc = "replied"
           THEN /\ UNCHANGED <<pinsCache, pinList, form>>
                /\ IF success
                   THEN /\ tasks' = [tasks EXCEPT ![t] = [@ EXCEPT !.pc = "listSent",
                                                                 !.reply = Failure]]
                        /\ markersLayer' = removePinFromMap(markersLayer, task.id)
                   ELSE /\ tasks' = [tasks EXCEPT ![t] = Finished(@, "alert")]
                        /\ markersLayer' = markersLayer
           ELSE /\ pinsCache' = getAllPins(task.reply)
                /\ pinList' = renderPinList(pinsCache')
                /\ markersLayer' = markersLayer
                /\ tasks' = [tasks EXCEPT ![t] = Finished(@, "ok")]
                /\ form' = IF form.id = task.id
                           THEN [resetForm(form) EXCEPT !.hidden = TRUE]
                           ELSE form
        /\ UNCHANGED <<session, screen, mapInitialized, mapInits, auth, adminLoad>>
        /\ UNCHANGED <<storeVars, publicVars>>

handleDeletePinResumes ==
    \E t \in TaskIds :
        /\ tasks[t].op = "delete"
        /\ tasks[t].pc \in {"replied", "listReplied"}
        /\ handleDeletePinResumesOf(t)

NextAdmin ==
    \/ checkAuth
    \/ sessionReturns
    \/ adminMapServed
    \/ adminMapLoaded
    \/ sessionExpires
    \/ handleMapClick
    \/ handleCancel
    \/ handlePinSubmit
    \/ handleEditPin
    \/ handleDeletePin
    \/ tableServes
    \/ handlePinSubmitResumes
    \/ handleEditPinResumes
    \/ handleDeletePinResumes

SpecAdmin == InitAdmin /\ [][NextAdmin]_vars

-----------------------------------------------------------------------------
(* createPopupContent on its own *)

\* a pin whose popup has not been built
InitPopup ==
    /\ Boot
    /\ store = <<>>
    /\ nextId = 1
    /\ session = FALSE
    /\ screen = NoScreens
    /\ popup \in {[NoPopup EXCEPT !.pin = p] : p \in PopupPins}

\* the popup of the pin is built
buildPopup ==
    /\ ~popup.built
    /\ LET content == createPopupContent(popup.pin)
       IN  popup' = [popup EXCEPT !.built = TRUE, !.actions = content.actions,
                                  !.buttons = content.buttons]
    /\ UNCHANGED <<mapVars, searchVars, storeVars, syncVars, pageVars>>

NextPopup == buildPopup

SpecPopup == InitPopup /\ [][NextPopup]_vars

-----------------------------------------------------------------------------
(* The public map with the pins table and its realtime feed *)

\* the public map opens on a pins table with some rows
InitSync ==
    /\ Boot
    /\ store \in InitialStores
    /\ nextId = Len(store) + 1
    /\ session = FALSE
    /\ screen = NoScreens
    /\ popup = NoPopup

\* a realtime event: its kind and the record it carries (the new record of an
\* insert or update, the old record of a delete)
Event(kind, pin) == [kind |-> kind, pin |-> pin]

\* the feed with one more event, for a page that has subscribed
Sent(queue, event) == IF subscribed THEN Append(queue, event) ELSE queue

\* another client creates, updates or deletes a row of the pins table; the
\* table sends the event to the pages that have subscribed
tableChanges ==
    /\ subscribed => Len(delivered) < MaxEvents
    /\ \E event \in {Event(k, p) : k \in {"insert", "update", "delete"}, p \in Pins} :
        /\ CASE event.kind = "insert" ->
                    /\ event.pin.id = nextId
                    /\ store' = <<event.pin>> \o store
                    /\ nextId' = nextId + 1
             [] event.kind = "update" ->
                    /\ \E i \in 1..Len(store) :
                            store[i].id = event.pin.id /\ store[i] # event.pin
                    /\ store' = updateRows(store, event.pin.id, event.pin.status, TRUE).store
                    /\ nextId' = nextId
             [] event.kind = "delete" ->
                    /\ \E i \in 1..Len(store) : store[i] = event.pin
                    /\ store' = deleteRows(store, event.pin.id, TRUE).store
                    /\ nextId' = nextId
        /\ feed' = Sent(feed, event)
        /\ delivered' = Sent(delivered, event)
    /\ UNCHANGED <<base, subscribed, listResponse>>
    /\ UNCHANGED <<mapVars, searchVars, pageVars, popup>>

\* the pins table answers the list-all request of init()
listAllAnswered ==
    /\ pc = "loading"
    /\ ~listResponse.here
    /\ \E reply \in {Reply(TRUE, store), Failure} :
        listResponse' = [ok |-> reply.ok, pins |-> reply.pins, here |-> TRUE]
    /\ UNCHANGED <<feed, delivered, base, subscribed>>
    /\ UNCHANGED <<mapVars, searchVars, storeVars, pageVars, popup>>

\* init() after the await, with the answer of the pins table; setupRealtime
\* subscribes at its end
initSubscribes ==
    /\ pc = "loading"
    /\ listResponse.here
    /\ initLoadedOf(listResponse)
    /\ base' = pinsCache'
    /\ subscribed' = TRUE
    /\ UNCHANGED <<feed, delivered, listResponse>>
    /\ UNCHANGED storeVars

\* an event in front of the others
takeEvent_newest(queue) ==
    [event |-> queue[Len(queue)], rest |-> SubSeq(queue, 1, Len(queue) - 1)]

\* subscribeToChanges: the callbacks get the events of the channel one by
\* one, in the order the channel delivers them
takeEvent(queue) == [event |-> Head(queue), rest |-> Tail(queue)]

\* the callback for the next event of the feed runs
eventDelivered ==
    /\ feed # <<>>
    /\ LET next == takeEvent(feed)
       IN  /\ feed' = next.rest
           /\ CASE next.event.kind = "insert" -> onInsertOf(next.event.pin)
                [] next.event.kind = "update" -> onUpdateOf(next.event.pin)
                [] next.event.kind = "delete" -> onDeleteOf(next.event.pin)
    /\ UNCHANGED <<delivered, base, subscribed, listResponse>>
    /\ UNCHANGED storeVars

NextSync ==
    \/ initStart
    \/ listAllAnswered
    \/ initSubscribes
    \/ tableChanges
    \/ eventDelivered

SpecSync == InitSync /\ [][NextSync]_vars

-----------------------------------------------------------------------------
(* Claims *)

\* the number of records of a cache with a status
CountOf(cache, s) == Len(SelectSeq(cache, LAMBDA p : p.status = s))

\* a sequence of records without those of an identifier
CacheWithout(cache, id) == SelectSeq(cache, LAMBDA p : p.id # id)

\* a marker layer without the markers of an identifier
LayerWithout(layer, id) == SelectSeq(layer, LAMBDA m : m.pinData.id # id)

LayerIds(layer) == {layer[i].pinData.id : i \in 1..Len(layer)}

\* C1: after any sequence of insert/update/delete events the cache holds at
\* most one record per identifier (an insert of a cached identifier appends
\* nothing).
C1_OneRecordPerId ==
    \A i, j \in 1..Len(pinsCache) : pinsCache[i].id = pinsCache[j].id => i = j

\* C2: an update event for an identifier that is not cached leaves the cache
\* as it was: same size, same records.
C2_UpdateAbsentIsNoop ==
    [][(pc = "ready" /\ last'.op = "update") =>
        \A p \in Pins :
            (onUpdateOf(p) /\ p.id \notin CacheIds(pinsCache))
                => /\ Len(pinsCache') = Len(pinsCache)
                   /\ pinsCache' = pinsCache]_vars

C2_Witness ==
    /\ last.op = "update"
    /\ last.id \notin CacheIds(pinsCache)
    /\ Len(pinsCache) > 0

\* C3 as stated: for every identifier and every prior cache, an insert event
\* directly followed by a delete event for the same identifier leaves the
\* cache without the identifier and the displayed counts as before the insert.
C3_InsertDeleteAnyCache ==
    (last.op = "delete" /\ last.chained)
        => /\ last.id \notin CacheIds(pinsCache)
           /\ counts = last.base

\* C3 amended: the same, for an identifier that was not cached before the
\* insert.
C3_InsertDeleteFreshId ==
    (last.op = "delete" /\ last.chained /\ last.fresh)
        => /\ last.id \notin CacheIds(pinsCache)
           /\ counts = last.base

C3_Witness ==
    /\ last.op = "delete"
    /\ last.chained
    /\ last.fresh
    /\ Len(pinsCache) > 0

\* C4: a delete event removes every cached record and every marker of its
\* identifier; every other record and every other marker (its pin record and
\* its dimming) stays as it was, and renderPins is not called.
C4_DeleteFrame ==
    [][(pc = "ready" /\ last'.op = "delete") =>
        \A p \in Pins : onDeleteOf(p)
            => /\ p.id \notin CacheIds(pinsCache')
               /\ p.id \notin LayerIds(markersLayer')
               /\ pinsCache' = CacheWithout(pinsCache, p.id)
               /\ markersLayer' = LayerWithout(markersLayer, p.id)
               /\ ~last'.rendered]_vars

C4_Witness ==
    /\ last.op = "delete"
    /\ last.changed
    /\ \E i \in 1..Len(markersLayer) : markersLayer[i].dimmed

\* C5: an update event for a cached identifier replaces the cached record of
\* that identifier by the event's record, keeps the size of the cache and all
\* other records, and after it every marker carries the cached record of its
\* pin, all markers having been rendered again.
C5_UpdateReplaces ==
    [][(pc = "ready" /\ last'.op = "update") =>
        \A p \in Pins : (onUpdateOf(p) /\ p.id \in CacheIds(pinsCache))
            => /\ Len(pinsCache') = Len(pinsCache)
               /\ \E i \in 1..Len(pinsCache) :
                    /\ pinsCache[i].id = p.id
                    /\ pinsCache'[i] = p
                    /\ \A j \in 1..Len(pinsCache) :
                            j # i => pinsCache'[j] = pinsCache[j]
               /\ Len(markersLayer') = Len(pinsCache')
               /\ \A i \in 1..Len(pinsCache') :
                    markersLayer'[i].pinData = pinsCache'[i]
               /\ last'.rendered]_vars

C5_Witness ==
    /\ last.op = "update"
    /\ last.changed
    /\ last.id \in CacheIds(pinsCache)
    /\ Len(pinsCache) > 1

C7_InsertInactiveDimmed ==
    (/\ last.op = "insert"
     /\ markersLayer[Len(markersLayer)].pinData.status = "critical"
     /\ "critical" \notin activeFilters)
        => /\ markersLayer[Len(markersLayer)].pinData.id = last.id
           /\ markersLayer[Len(markersLayer)].dimmed
           /\ ~last.rendered

C7_Witness ==
    /\ last.op = "insert"
    /\ Len(markersLayer) > 1
    /\ markersLayer[Len(markersLayer)].pinData.status = "critical"
    /\ "critical" \notin activeFilters

\* C8: after init and after every realtime event the displayed count of each
\* of the five categories is the number of cached records with that status,
\* whatever the filter set is.
C8_CountsMatchCache ==
    pc = "ready" =>
        \A s \in {"critical", "warning", "active", "past", "weather"} :
            counts[s] = CountOf(pinsCache, s)

C8_Witness ==
    /\ last.op \in {"insert", "update", "delete"}
    /\ "past" \notin activeFilters
    /\ counts["past"] > 0
    /\ counts["critical"] > 0

\* C9: resetFilters leaves exactly the five categories active, whatever was
\* toggled before.
C9_ResetYieldsAll ==
    last.op = "reset"
        => activeFilters = {"critical", "warning", "active", "past", "weather"}

C9_Witness ==
    /\ last.op = "reset"
    /\ last.changed

\* C10: toggleFilter(c) flips the membership of c and of no other category,
\* so a second toggle of c restores the set.
C10_ToggleFlips ==
    [][(pc = "ready" /\ last'.op = "toggle" /\ toggleFilter) =>
        LET c == last'.cat
        IN  /\ (c \in activeFilters') <=> (c \notin activeFilters)
            /\ \A d \in FilterCategories \ {c} :
                    (d \in activeFilters') <=> (d \in activeFilters)
            /\ toggleSet(activeFilters', c) = activeFilters]_vars

C10_Witness ==
    /\ last.op = "toggle"
    /\ last.cat \in activeFilters
    /\ activeFilters # FilterCategories

\* C11: toggleFilter and resetFilters leave the pin cache and the displayed
\* counts as they were.
C11_FiltersKeepCacheAndCounts ==
    [][(pc = "ready" /\ last'.op \in {"toggle", "reset"}) =>
        /\ pinsCache' = pinsCache
        /\ counts' = counts]_vars

C11_Witness ==
    /\ last.op \in {"toggle", "reset"}
    /\ last.changed
    /\ Len(pinsCache) > 0
    /\ \E i \in 1..Len(markersLayer) : markersLayer[i].dimmed

\* the distance in miles between two latitudes of one meridian
ArcMiles(a, b) == IF a >= b THEN a - b ELSE b - a

FiveDigits(q) ==
    /\ Len(q) = 5
    /\ \A i \in 1..Len(q) : q[i] \in {"0", "1", "2", "3", "4", "5", "6", "7", "8", "9"}

\* the step of call s of handleSearch that starts it
Submits(s) == searches[s].pc = "idle" /\ searches'[s].pc # "idle"

\* the step of call s of handleSearch that follows `await import('./map.js')`
Finishes(s) == searches[s].pc = "import" /\ searches'[s].pc = "done"

\* C12: a search whose trimmed input is empty or is not exactly five decimal
\* digits ends at once with a validation message and issues no geocoding
\* request; that message is neither the not-found nor the search-failed one.
C12_InvalidInputRejected ==
    [][\A s \in Slots :
        (Submits(s) /\ (searches'[s].query = <<>> \/ ~FiveDigits(searches'[s].query)))
            => /\ searches'[s].pc = "done"
               /\ requests' = requests
               /\ ~searchResult'.hidden
               /\ searchResult'.text \in {"Please enter a zip code",
                                          "Please enter a valid 5-digit zip code"}
               /\ searchResult'.text # NotFound(searches'[s].query).text
               /\ searchResult'.text # SearchFailed.text]_vars

C12_Witness ==
    \E s, t \in Slots :
        /\ searches[s].end = "invalid"
        /\ searches[s].query = <<"1", "2", "3", "4">>
        /\ searches[t].end = "invalid"
        /\ searches[t].query = <<"a", "b", "c", "d", "e">>
        /\ requests = 0

\* C13: for a resolved coordinate, the pins findPinsInRadius returns are
\* exactly the cached pins at a distance of at most 50 miles, each once and in
\* cache order: a pin at exactly 50 miles is in, a pin farther away is out.
C13_InRangeExact ==
    [][\A s \in Slots :
        (searches[s].pc = "geocode" /\ searches'[s].pc = "import")
            => LET c == searches'[s].coords.lat
                   near == searches'[s].nearby
                   inRange == {i \in 1..Len(pinsCache) :
                                    ArcMiles(pinLat(pinsCache[i]), c) <= 50}
               IN  /\ Len(near) = Cardinality(inRange)
                   /\ \A i \in inRange : \E k \in 1..Len(near) : near[k] = pinsCache[i]
                   /\ \A k \in 1..Len(near) : \E i \in inRange : near[k] = pinsCache[i]]_vars

C13_Witness ==
    \E s \in Slots :
        /\ searches[s].pc = "import"
        /\ searches[s].coords.lat = 0
        /\ \E k \in 1..Len(searches[s].nearby) :
                ArcMiles(pinLat(searches[s].nearby[k]), 0) = 50
        /\ \E i \in 1..Len(pinsCache) : ArcMiles(pinLat(pinsCache[i]), 0) = 51
        /\ \A k \in 1..Len(searches[s].nearby) :
                ArcMiles(pinLat(searches[s].nearby[k]), 0) # 51

\* C14: a search with a valid input whose lookup resolved to a coordinate ends
\* with a result message that carries the resolved label and the number of
\* pins in range, and that is not an error message (also when the number is 0).
C14_ResolvedSearchReports ==
    [][\A s \in Slots :
        Finishes(s)
            => /\ ~searchResult'.hidden
               /\ searchResult'.display = searches[s].coords.display
               /\ searchResult'.n = Len(searches[s].nearby)
               /\ searchResult'.type # "error"]_vars

\* C15: after a search whose lookup resolved to a coordinate, the map is
\* centred on that coordinate at the fixed zoom and a radius circle centred on
\* that coordinate is on the map.
C15_ResolvedSearchRecentres ==
    [][\A s \in Slots :
        Finishes(s)
            => /\ view' = [kind |-> "coord", lat |-> searches[s].coords.lat,
                           lng |-> searches[s].coords.lng, zoom |-> 9]
               /\ \E c \in overlays' :
                    c.lat = searches[s].coords.lat /\ c.lng = searches[s].coords.lng]_vars

C17_NoMatchIsNotFound ==
    [][\A s \in Slots :
        (searches[s].pc = "geocode" /\ searches'[s].pc = "done") =>
            \A response \in GeoResponses :
                (/\ geocodeReturnsOf(s, response)
                 /\ \/ response.kind = "notok"
                    \/ response.kind = "ok" /\ response.results = <<>>)
                    => /\ ~geocode(response).threw
                       /\ ~geocode(response).coords.found
                       /\ searches'[s].end = "notfound"
                       /\ ~searchResult'.hidden
                       /\ searchResult'.text = "Zip code ${query} not found"
                       /\ searchResult'.query = searches[s].query
                       /\ searchResult'.text # SearchFailed.text]_vars

C17_Witness ==
    \E s \in Slots :
        /\ searches[s].end = "notfound"
        /\ searchResult = NotFound(searches[s].query)
        /\ arrivals # <<>> /\ arrivals[Len(arrivals)] = s

\* C18: no step of a search changes the pin cache or the active filter set,
\* however the search ends; a request that fails ends the search with the
\* search-failed message shown.
C18_SearchKeepsCacheAndFilters ==
    [][searches' # searches =>
        /\ pinsCache' = pinsCache
        /\ activeFilters' = activeFilters
        /\ \A s \in Slots :
            (searches[s].pc = "geocode" /\ searches'[s].pc = "done") =>
                \A response \in GeoResponses :
                    (geocodeReturnsOf(s, response) /\ response.kind \in {"reject", "badbody"})
                        => /\ searchResult' = SearchFailed
                           /\ ~searchResult'.hidden]_vars

C18_Witness ==
    /\ Len(pinsCache) > 1
    /\ \E s, t \in Slots :
        /\ searches[s].end = "failed" /\ ~searches[s].coords.found
        /\ searches[t].end = "failed" /\ searches[t].coords.found
        /\ Len(findPinsInRadius(pinsCache, searches[t].coords.lat, 0, 50)) < Len(pinsCache)

\* C19: when two searches were in flight and the answer to the earlier one
\* arrived after the answer to the later one, then once both have ended the
\* circle on the map is that of the answer that arrived last (that of the
\* earlier search), it is the only one, and the message is a result message.
C19_StaleSearchWins ==
    \A a, b \in Slots :
        (/\ a < b
         /\ searches[a].pc = "done" /\ searches[a].coords.found
         /\ searches[b].pc = "done" /\ searches[b].coords.found
         /\ \A t \in Slots : searches[t].pc \in {"idle", "done"}
         /\ \E i, j \in 1..Len(arrivals) : i < j /\ arrivals[i] = b /\ arrivals[j] = a
         /\ arrivals[Len(arrivals)] = a)
            => /\ overlays = {[lat |-> searches[a].coords.lat,
                               lng |-> searches[a].coords.lng, by |-> a]}
               /\ searchCircle \in overlays
               /\ Cardinality(overlays) <= 1
               /\ ~searchResult.hidden

\* C20: every failure of an external call ends in a message the user sees:
\* here, a list-all request that fails during init.
C20_FailuresAreShown ==
    (last.op = "init" /\ ~last.changed) => ~searchResult.hidden

\* the calls of handleSearch whose input was a zip code
ValidSearches == {s \in Slots : searches[s].pc # "idle" /\ searches[s].end # "invalid"}

-----------------------------------------------------------------------------
(* Claims about the admin panel *)

Writes == {"create", "update", "delete"}

\* the call t of a pin handler resumes after an await
Resumes(t) ==
    /\ tasks[t].pc \in {"replied", "listReplied"}
    /\ tasks'[t].pc # tasks[t].pc

\* the call t of a pin handler returns
Completes(t) == tasks[t].pc # "done" /\ tasks'[t].pc = "done"

\* C21: a handler that resumes with the failure of its request (the create,
\* update or delete request, the request for a pin, the list-all refresh)
\* leaves the pin cache as it was; so does initAdminMap.
C21_FailedCallKeepsCache ==
    [][/\ \A t \in TaskIds :
            (Resumes(t) /\ ~tasks[t].reply.ok) => pinsCache' = pinsCache
       /\ (adminLoad.pc = "replied" /\ adminLoad'.pc = "loaded" /\ ~adminLoad.reply.ok)
            => pinsCache' = pinsCache]_vars

\* C22: a create, update or delete that the pins table took without a valid
\* session, and rejected or did not apply, ends with the alert of a failed
\* operation, and no marker is added or removed.
C22_UnauthorisedWriteFails ==
    [][\A t \in TaskIds :
            (/\ Resumes(t)
             /\ tasks[t].pc = "replied"
             /\ tasks[t].op \in Writes
             /\ ~tasks[t].asUser
             /\ tasks[t].reply.pins = <<>>)
            => (tasks'[t].end = "alert" /\ markersLayer' = markersLayer)]_vars

\* the handlers that decide which screen is shown, as steps
SessionQueryReturns == auth.check = "pending" /\ auth'.check = "done"

SignInReturns == auth.login = "pending" /\ auth'.login = "idle"

LogoutPerformed == auth'.logout < auth.logout

SignedOutDelivered == auth'.notices < auth.notices

\* C23: the admin panel becomes visible only in the step in which the session
\* query returns a user or a sign-in succeeds; the delivery of a SIGNED_OUT
\* notice and a logout end with the login screen shown and the panel hidden;
\* and each of these handlers, as any step that changes a screen, ends with
\* exactly one of the two screens visible.
C23_ScreensFollowSession ==
    [][/\ (~screen.admin /\ screen'.admin) =>
            \/ SessionQueryReturns /\ session
            \/ SignInReturns /\ ~auth'.loginError
       /\ (LogoutPerformed \/ SignedOutDelivered) => screen' = LoginShown
       /\ (\/ SessionQueryReturns
           \/ SignInReturns /\ ~auth'.loginError
           \/ LogoutPerformed
           \/ SignedOutDelivered
           \/ screen' # screen) => screen'.login # screen'.admin]_vars

\* a session has ended after the panel had been opened, every handler has
\* returned, and the login screen is back
C23_Witness ==
    /\ screen = LoginShown
    /\ mapInitialized
    /\ auth.check = "done"
    /\ auth.logout = 0
    /\ auth.notices = 0
    /\ ~session
    /\ ~auth.loginError

-----------------------------------------------------------------------------
(* Claims about the popup *)

\* the flags of a pin that are true
TrueFlags(pin) ==
    {f \in {"donate", "volunteer", "help"} :
        \/ f = "donate" /\ pin.show_donate = "true"
        \/ f = "volunteer" /\ pin.show_volunteer = "true"
        \/ f = "help" /\ pin.show_help = "true"}

\* how often a text occurs among the buttons
Occurrences(buttons, texts) == Cardinality({i \in 1..Len(buttons) : buttons[i] \in texts})

\* C24: the popup built for a pin has no action-button section when none of
\* the three flags is true; otherwise it has the section, with one button per
\* true flag and none for the others, and one custom-link button exactly when
\* the pin has a URL, and no further button.
C24_ButtonsFollowFlags ==
    popup.built =>
        LET pin == popup.pin
            flags == TrueFlags(pin)
            linkTexts == {"Details", "More Info"}
            Once(flag, text) ==
                Occurrences(popup.buttons, {text}) = IF flag \in flags THEN 1 ELSE 0
        IN  IF flags = {}
            THEN ~popup.actions /\ popup.buttons = <<>>
            ELSE /\ popup.actions
                 /\ Once("donate", "Donate")
                 /\ Once("volunteer", "Volunteer")
                 /\ Once("help", "Get Help")
                 /\ Occurrences(popup.buttons, linkTexts) = IF pin.url # "" THEN 1 ELSE 0
                 /\ Len(popup.buttons) = Cardinality(flags) + IF pin.url # "" THEN 1 ELSE 0

\* a popup with one flag button and the custom link has been built
C24_Witness ==
    /\ popup.built
    /\ popup.pin.show_volunteer = "true"
    /\ popup.pin.show_donate = "false"
    /\ popup.pin.show_help = "false"
    /\ popup.pin.url # ""
    /\ popup.buttons = <<"Volunteer", "More Info">>

-----------------------------------------------------------------------------
(* Claims about the realtime feed *)

\* what applying one event to a cache gives
ApplyEvent(cache, event) ==
    CASE event.kind = "insert" -> cache \o <<event.pin>>
      [] event.kind = "update" ->
            [i \in 1..Len(cache) |->
                IF cache[i].id = event.pin.id THEN event.pin ELSE cache[i]]
      [] event.kind = "delete" -> SelectSeq(cache, LAMBDA p : p.id # event.pin.id)

\* what applying the events of a sequence one after the other gives
RECURSIVE Replay(_, _)
Replay(cache, events) ==
    IF events = <<>> THEN cache
    ELSE Replay(ApplyEvent(cache, Head(events)), Tail(events))

\* the events the callbacks have handled: those sent and no longer waiting
Handled == SubSeq(delivered, 1, Len(delivered) - Len(feed))

\* C25: whenever no callback is running, the pin cache is what applying the
\* events handled so far, one after the other in the order the feed delivered
\* them, makes of the cache init() loaded; the counts and the markers are
\* those of that cache.
C25_EventsAppliedInOrder ==
    pc = "ready" =>
        /\ pinsCache = Replay(base, Handled)
        /\ counts = [s \in FilterCategories |-> CountOf(pinsCache, s)]
        /\ [i \in 1..Len(markersLayer) |-> markersLayer[i].pinData] = pinsCache

\* three events have been handled, the insert of a pin before its update and
\* its delete
C25_Witness ==
    /\ pc = "ready"
    /\ Len(Handled) = 3
    /\ Handled[1].kind = "insert"
    /\ Handled[2].kind = "update"
    /\ Handled[3].kind = "delete"
    /\ Handled[2].pin.id = Handled[1].pin.id
    /\ Handled[3].pin.id = Handled[1].pin.id
    /\ feed = <<>>

\* C27: once init() has loaded the list and every event sent to the page has
\* been handled, the identifiers of the pin cache are those of the pins table.
C27_CacheCatchesUp ==
    (pc = "ready" /\ listResponse.ok /\ feed = <<>>) =>
        CacheIds(pinsCache) = CacheIds(store)

-----------------------------------------------------------------------------
(* Claims about the pin handlers of the admin panel *)

\* C28: when a create, update or delete returns and no other handler is
\* under way, the pins with a marker are the pins of the pin cache, and the
\* pin list shows that cache.
C28_MarkersMatchCache ==
    [][\A t \in TaskIds :
            (/\ Completes(t)
             /\ tasks[t].op \in Writes
             /\ \A u \in TaskIds : tasks'[u].pc \in {"idle", "done"}) =>
                /\ LayerIds(markersLayer') = CacheIds(pinsCache')
                /\ pinList' = renderPinList(pinsCache')]_vars

\* the call t of handleDeletePin has returned after the pins table deleted
\* the pin
Deleted(t) ==
    /\ tasks[t].op = "delete"
    /\ tasks[t].pc = "done"
    /\ tasks[t].end = "ok"
    /\ tasks[t].asUser
    /\ tasks[t].id \notin CacheIds(store)

\* C29: once handleDeletePin has deleted a pin and returned, the form is not
\* open in editing mode for that pin.
C29_NoFormForDeletedPin ==
    \A t \in TaskIds :
        Deleted(t) => ~(~form.hidden /\ form.isEditing /\ form.id = tasks[t].id)

\* the call t of handlePinSubmit has sent a create request and has not
\* returned
Creating(t) == tasks[t].op = "create" /\ tasks[t].pc # "done"

\* C30: no create request is issued from a new-pin form of which an earlier
\* submission still awaits the pins table (the form of a click on the map
\* has its temporary marker until it is submitted).
C30_OneCreatePerForm ==
    [][\A t \in TaskIds :
            (tasks[t].pc = "idle" /\ Creating(t)') =>
                ~(~form.tempMarker /\ \E u \in TaskIds : Creating(u))]_vars

\* C32: initAdminMap runs at most once per page load, whatever the sequence
\* of session checks, sign-ins, logouts and SIGNED_OUT notices.
C32_MapInitialisedOnce == mapInits <= 1

\* the panel has been shown again, after a sign-in, with its map already set up
C32_Witness == mapInits = 1 /\ adminLoad.again /\ screen = AdminShown

\* the pins of a cache within 50 miles of a latitude
InRangeOf(cache, lat) == SelectSeq(cache, LAMBDA p : ArcMiles(pinLat(p), lat) <= 50)

\* the step of call s of handleSearch that follows the answer of the geocoder
\* with a match
Resolves(s) == searches[s].pc = "geocode" /\ searches'[s].pc = "import"

\* the events applied while the lookup of call s was in flight changed which
\* pins are in range
MovedInFlight(s) ==
    searches[s].nearby # InRangeOf(searches[s].atSubmit, searches[s].coords.lat)

\* C31: a search takes its in-range pins from the pin cache as it is when the
\* answer of the geocoder arrives, and when insert or delete events applied
\* during the lookup changed them, the result message reports their number.
C31_CountFollowsArrival ==
    [][\A s \in Slots :
        /\ Resolves(s) =>
                searches'[s].nearby = InRangeOf(pinsCache, searches'[s].coords.lat)
        /\ (Finishes(s) /\ MovedInFlight(s)) =>
                /\ ~searchResult'.hidden
                /\ searchResult'.type # "error"
                /\ searchResult'.n = Len(searches[s].nearby)]_vars

====
